---- MODULE Spec2Model ----
(***************************************************************************)
(* RamFuzz runtime (runtime/ramfuzz-rt.hpp): the value generator gen, its  *)
(* binary log, its generate and replay modes, and the object synthesis     *)
(* make()/makenew() with the per-type storage.                             *)
(*                                                                         *)
(* Numeric values are modelled by their object representation: a tuple of  *)
(* sizeof(T) bytes, least significant byte first (the layout output() and  *)
(* input() copy to and from the log with reinterpret_cast<char *>).  A     *)
(* size_t therefore keeps its full 64 bits.                                *)
(*                                                                         *)
(* The last part models globally_visible (lib/Util.cpp), the predicate the *)
(* harness generator uses to decide which classes get a harness.           *)
(***************************************************************************)
EXTENDS Integers, Sequences, FiniteSets, TLC

VARIABLES
  runmode,    \* gen::runmode: "generate" or "replay"
  ctor,       \* which gen constructor built this engine, and from what
  ilogname,   \* path opened as ilog ("" in generate mode)
  ologname,   \* path opened as olog
  olog,       \* bytes written to the olog stream
  disk,       \* bytes of the output log file, as the operating system holds it
  ilog,       \* bytes of the input log file
  ipos,       \* read position of the ilog stream
  ifail,      \* failbit of the ilog stream
  heap,       \* the objects allocated so far; a handle is an index
  storage,    \* gen::storage: type -> handles stored, oldest first
  stack,      \* call stack of the make() in progress, innermost first
  made,       \* the most recent make() that returned, and its result
  status,     \* "running", "aborted" (assert), "crashed", "bad_alloc"
  ncalls,     \* public calls (between, make) the program has started
  last,       \* the most recent between() call and what it returned
  session,    \* between() calls completed by this engine: type and value
  prev,       \* the same history of the engine that wrote this engine's ilog
  prevmode,   \* runmode of that engine ("none" when ilog is a foreign file)
  scopes,     \* a class declaration and its enclosing scopes, innermost first
  vpos,       \* globally_visible: the scope C or ctx stands at
  vpc,        \* globally_visible: "entry", "loop", "done" ("off": not running)
  visible     \* globally_visible: the value returned ("none" before)

genvars == <<runmode, ctor, ilogname, ologname, olog, disk, ilog, ipos, ifail,
             heap, storage, stack, made, status, ncalls, last, session, prev,
             prevmode>>

visvars == <<scopes, vpos, vpc, visible>>

vars == <<runmode, ctor, ilogname, ologname, olog, disk, ilog, ipos, ifail,
          heap, storage, stack, made, status, ncalls, last, session, prev,
          prevmode, scopes, vpos, vpc, visible>>

----------------------------------------------------------------------------
(* Bounds of the model *)

\* between() calls and top-level make() calls one engine may start
MaxCalls == 2

\* records of a foreign input log
MaxIn == 2

----------------------------------------------------------------------------
(* Numeric types and their object representation *)

NumTypes == {"char", "unsigned", "size_t", "double"}

SizeOf(T) ==
  CASE T = "char" -> 1
    [] T = "unsigned" -> 4
    [] T = "size_t" -> 8
    [] T = "double" -> 8

IsSigned(T) == T = "char"

\* typetag(T): the tag byte of T's log entries
typetag(T) ==
  CASE T = "char" -> 1
    [] T = "unsigned" -> 6
    [] T = "size_t" -> 8
    [] T = "double" -> 12

RECURSIVE NumBytes(_, _)
NumBytes(n, w) ==
  IF w = 0 THEN <<>> ELSE <<n % 256>> \o NumBytes(n \div 256, w - 1)

\* the representation of the small non-negative integer n as a T
Num(T, n) == NumBytes(n, SizeOf(T))

AllBytes(w, b) == [i \in 1..w |-> b]

\* std::numeric_limits<T>::min() and max()
NumMin(T) ==
  CASE T = "char" -> <<128>>
    [] T = "unsigned" -> AllBytes(4, 0)
    [] T = "size_t" -> AllBytes(8, 0)
    [] T = "double" -> <<0, 0, 0, 0, 0, 0, 16, 0>>

NumMax(T) ==
  CASE T = "char" -> <<127>>
    [] T = "unsigned" -> AllBytes(4, 255)
    [] T = "size_t" -> AllBytes(8, 255)
    [] T = "double" -> <<255, 255, 255, 255, 255, 255, 239, 127>>

\* doubles by their IEEE-754 bits; only non-negative ones occur, and those
\* are ordered like their bit patterns
Dbl(hi, lo) == <<0, 0, 0, 0, 0, 0, lo, hi>>
D0 == Dbl(0, 0)
DQuarter == Dbl(63, 208)
DHalf == Dbl(63, 224)
D3Quarters == Dbl(63, 232)
D1 == Dbl(63, 240)

\* the byte that decides the order first: the most significant one, with the
\* sign bit flipped for a signed type
OrdByte(T, v, i) ==
  IF i = SizeOf(T) /\ IsSigned(T) THEN (v[i] + 128) % 256 ELSE v[i]

RECURSIVE LeqFrom(_, _, _, _)
LeqFrom(T, a, b, i) ==
  IF i = 0 THEN TRUE
  ELSE IF OrdByte(T, a, i) < OrdByte(T, b, i) THEN TRUE
  ELSE IF OrdByte(T, a, i) > OrdByte(T, b, i) THEN FALSE
  ELSE LeqFrom(T, a, b, i - 1)

\* a <= b as values of type T
Leq(T, a, b) == LeqFrom(T, a, b, SizeOf(T))

Lt(T, a, b) == Leq(T, a, b) /\ a # b

InRange(T, lo, v, hi) == Leq(T, lo, v) /\ Leq(T, v, hi)

\* v + 1 in w-byte unsigned arithmetic (wraps to 0)
RECURSIVE Inc(_)
Inc(v) ==
  IF v = <<>> THEN <<>>
  ELSE IF v[1] < 255 THEN <<v[1] + 1>> \o Tail(v)
  ELSE <<0>> \o Inc(Tail(v))

\* the value of v as a natural number when it is below 2^16, else -1
SmallNat(v) ==
  IF \A i \in 3..Len(v) : v[i] = 0 THEN v[1] + 256 * v[2] ELSE -1

----------------------------------------------------------------------------
(* Values the random source may deliver, per type *)

\* 2^32 as a size_t
Huge == <<0, 0, 0, 0, 1, 0, 0, 0>>

Samples(T) ==
  CASE T = "char" -> {<<128>>, <<0>>, <<65>>, <<127>>}
    [] T = "unsigned" -> {Num(T, 0), Num(T, 1), Num(T, 2), Num(T, 3)}
    [] T = "size_t" -> {Num(T, 0), Num(T, 1), Num(T, 2), Huge, NumMax(T)}
    [] T = "double" -> {DHalf, D3Quarters}

\* gen::uniform_random(lo, hi): some value of [lo, hi]
uniform_random(T, lo, hi) == {v \in Samples(T) : InRange(T, lo, v, hi)}

----------------------------------------------------------------------------
(* The binary log: tag, value bytes, id bytes; no header, no length *)

IdSize == SizeOf("size_t")

\* gen::output with the id written before the value
output_id_first(log, T, val, id) == log \o <<typetag(T)>> \o id \o val

\* gen::output(val, id): what the output file holds after the call
output(log, T, val, id) == log \o <<typetag(T)>> \o val \o id

\* ilog.get(): the next byte as a char, or EOF (-1, the char 255) with the
\* failbit set
ilog_get(s) ==
  IF ~s.fail /\ s.pos < Len(ilog)
  THEN [ch |-> ilog[s.pos + 1], s |-> [pos |-> s.pos + 1, fail |-> FALSE]]
  ELSE [ch |-> 255, s |-> [pos |-> s.pos, fail |-> TRUE]]

\* ilog.read(buf, n): the bytes stored into buf; fewer than n set the failbit
ilog_read(s, n) ==
  IF s.fail THEN [got |-> <<>>, s |-> s]
  ELSE IF Len(ilog) - s.pos >= n
  THEN [got |-> SubSeq(ilog, s.pos + 1, s.pos + n),
        s |-> [pos |-> s.pos + n, fail |-> FALSE]]
  ELSE [got |-> SubSeq(ilog, s.pos + 1, Len(ilog)),
        s |-> [pos |-> Len(ilog), fail |-> TRUE]]

\* bytes of "T val;" that no read has stored: indeterminate
JunkBytes == {0, 170}
Indeterminate(n) == IF n = 0 THEN {<<>>} ELSE {AllBytes(n, b) : b \in JunkBytes}

\* gen::input reading a 4-byte id
input_short_id(T, s) ==
  LET g == ilog_get(s)
      r1 == ilog_read(g.s, SizeOf(T))
      r2 == ilog_read(r1.s, 4)
  IN [ok |-> g.ch = typetag(T),
      vals |-> {r1.got \o j : j \in Indeterminate(SizeOf(T) - Len(r1.got))},
      s |-> IF g.ch = typetag(T) THEN r2.s ELSE g.s]

\* gen::input without its assertion
input_unchecked(T, s) ==
  LET g == ilog_get(s)
      r1 == ilog_read(g.s, SizeOf(T))
      r2 == ilog_read(r1.s, IdSize)
  IN [ok |-> TRUE,
      vals |-> {r1.got \o j : j \in Indeterminate(SizeOf(T) - Len(r1.got))},
      s |-> r2.s]

\* gen::input(val): ok is the assertion; vals the values val may hold after
\* the reads; s the stream afterwards
input(T, s) ==
  LET g == ilog_get(s)
      r1 == ilog_read(g.s, SizeOf(T))
      r2 == ilog_read(r1.s, IdSize)
  IN [ok |-> g.ch = typetag(T),
      vals |-> {r1.got \o j : j \in Indeterminate(SizeOf(T) - Len(r1.got))},
      s |-> IF g.ch = typetag(T) THEN r2.s ELSE g.s]

istream == [pos |-> ipos, fail |-> ifail]

\* gen::between that logs nothing in replay mode
between_replay_silent(T, lo, hi, id) ==
  IF runmode = "generate"
  THEN {[ok |-> TRUE, val |-> v, olog |-> output(olog, T, v, id), s |-> istream]
          : v \in uniform_random(T, lo, hi)}
  ELSE LET i == input(T, istream)
       IN IF ~i.ok
          THEN {[ok |-> FALSE, val |-> <<>>, olog |-> olog, s |-> i.s]}
          ELSE {[ok |-> TRUE, val |-> v, olog |-> olog, s |-> i.s]
                  : v \in i.vals}

\* the file when output() ends without olog.flush(): the record stays in
\* the stream's buffer
olog_noflush(written, durable) == durable

\* olog.flush(): every byte written so far is handed to the file
olog_flush(written, durable) == written

\* gen::between that brings a replayed value back into [lo, hi]
between_replay_clamped(T, lo, hi, id) ==
  IF runmode = "generate"
  THEN {[ok |-> TRUE, val |-> v, olog |-> output(olog, T, v, id), s |-> istream]
          : v \in uniform_random(T, lo, hi)}
  ELSE LET i == input(T, istream)
           clamp(v) == IF InRange(T, lo, v, hi) THEN v ELSE lo
       IN IF ~i.ok
          THEN {[ok |-> FALSE, val |-> <<>>, olog |-> olog, s |-> i.s]}
          ELSE {[ok |-> TRUE, val |-> clamp(v),
                 olog |-> output(olog, T, clamp(v), id), s |-> i.s]
                  : v \in i.vals}

\* gen::between(lo, hi, valueid): the outcomes of one call.  ok = FALSE is the
\* failed assertion of input(), which aborts the process
between(T, lo, hi, id) ==
  IF runmode = "generate"
  THEN {[ok |-> TRUE, val |-> v, olog |-> output(olog, T, v, id), s |-> istream]
          : v \in uniform_random(T, lo, hi)}
  ELSE LET i == input(T, istream)
       IN IF ~i.ok
          THEN {[ok |-> FALSE, val |-> <<>>, olog |-> olog, s |-> i.s]}
          ELSE {[ok |-> TRUE, val |-> v, olog |-> output(olog, T, v, id),
                 s |-> i.s] : v \in i.vals}

----------------------------------------------------------------------------
(* Reading a log back as records (used to state the properties) *)

TagTypes(tag) == {T \in NumTypes : typetag(T) = tag}

RecLen(T) == 1 + SizeOf(T) + IdSize

RECURSIVE ParseLog(_)
ParseLog(b) ==
  IF b = <<>> \/ TagTypes(b[1]) = {} THEN <<>>
  ELSE LET T == CHOOSE t \in TagTypes(b[1]) : TRUE
       IN IF Len(b) < RecLen(T) THEN <<>>
          ELSE <<[tag |-> b[1], type |-> T,
                  val |-> SubSeq(b, 2, 1 + SizeOf(T)),
                  id |-> SubSeq(b, 2 + SizeOf(T), RecLen(T))]>>
               \o ParseLog(SubSeq(b, RecLen(T) + 1, Len(b)))

RECURSIVE SumLen(_)
SumLen(recs) ==
  IF recs = <<>> THEN 0 ELSE RecLen(recs[1].type) + SumLen(Tail(recs))

\* b is a sequence of complete records and nothing else
WholeRecords(b) == SumLen(ParseLog(b)) = Len(b)

----------------------------------------------------------------------------
(* Construction of an engine *)

BaseNames == {"fuzzlog", "out.log"}
ForeignNames == {"in.log"}

\* gen(ologname = "fuzzlog")
gen_olog(oname) ==
  [runmode |-> "generate", ilogname |-> "", ologname |-> oname]

\* gen(ilogname, ologname)
gen_ilog_olog(iname, oname) ==
  [runmode |-> "replay", ilogname |-> iname, ologname |-> oname]

\* gen(argc, argv, k); argv[k] of the code is argv[k + 1] here
gen_argv(argc, argv, k) ==
  IF k < argc
  THEN gen_ilog_olog(argv[k + 1], argv[k + 1] \o "+")
  ELSE gen_olog("fuzzlog")

OtherName(iname) == IF iname = "out.log" THEN "fuzzlog" ELSE "out.log"

\* the constructor calls a program may make to read the file iname (or to
\* generate); the test programs call gen(argc, argv) with k = 1
Constructions(iname) ==
  {[form |-> "olog", argc |-> 0, e |-> gen_olog(n)] : n \in BaseNames}
  \cup {[form |-> "ilog_olog", argc |-> 0,
           e |-> gen_ilog_olog(iname, OtherName(iname))]}
  \cup {[form |-> "argv", argc |-> 1, e |-> gen_argv(1, <<"prog">>, 1)]}
  \cup {[form |-> "argv", argc |-> 2, e |-> gen_argv(2, <<"prog", iname>>, 1)]}

----------------------------------------------------------------------------
(* The environment: what the callers ask for *)

CallTypes == {"char", "unsigned", "size_t"}

\* the [lo, hi] a caller passes for T
RangeLo(T) ==
  CASE T = "char" -> <<128>>
    [] T = "unsigned" -> Num(T, 1)
    [] T = "size_t" -> Num(T, 2)
    [] T = "double" -> D0

RangeHi(T) ==
  CASE T = "char" -> <<65>>
    [] T = "unsigned" -> Num(T, 2)
    [] T = "size_t" -> Huge
    [] T = "double" -> D1

Ids == {Num("size_t", 42), Num("size_t", 300)}

\* records a foreign input log may hold
ForeignRecs ==
  {[type |-> "char", val |-> <<65>>], [type |-> "char", val |-> <<128>>],
   [type |-> "unsigned", val |-> Num("unsigned", 4)],
   [type |-> "size_t", val |-> Num("size_t", 2)]}

ForeignId == Num("size_t", 7)

RECURSIVE Encode(_)
Encode(recs) ==
  IF recs = <<>> THEN <<>>
  ELSE <<typetag(recs[1].type)>> \o recs[1].val \o ForeignId
       \o Encode(Tail(recs))

RecSeqs(n) == UNION {[1..k -> ForeignRecs] : k \in 0..n}

\* a foreign file: whole records, or records cut short by some bytes
Cuts == {0, 3, 9}
ForeignLogs ==
  {SubSeq(Encode(rs), 1, Len(Encode(rs)) - c)
     : <<rs, c>> \in {x \in RecSeqs(MaxIn) \X Cuts : Len(x[1]) > 0 \/ x[2] = 0}}

----------------------------------------------------------------------------
(* State after construction *)

NoCall ==
  [n |-> 0, T |-> "", lo |-> <<>>, hi |-> <<>>, id |-> <<>>, val |-> <<>>,
   ret |-> FALSE]

NoMake == [n |-> 0, T |-> "", allow |-> FALSE, h |-> 0]

Construct(c, file, history, mode) ==
  /\ ctor' = [form |-> c.form, argc |-> c.argc]
  /\ runmode' = c.e.runmode
  /\ ilogname' = c.e.ilogname
  /\ ologname' = c.e.ologname
  /\ olog' = <<>>
  /\ disk' = <<>>
  /\ UNCHANGED visvars
  /\ ilog' = IF c.e.runmode = "replay" THEN file ELSE <<>>
  /\ ipos' = 0
  /\ ifail' = FALSE
  /\ heap' = <<>>
  /\ storage' = <<>>
  /\ stack' = <<>>
  /\ made' = NoMake
  /\ status' = "running"
  /\ ncalls' = 0
  /\ last' = NoCall
  /\ session' = <<>>
  /\ prev' = IF c.e.runmode = "replay" THEN history ELSE <<>>
  /\ prevmode' = IF c.e.runmode = "replay" THEN mode ELSE "none"

InitFrom(files) ==
  \E c \in Constructions("in.log") :
    \E file \in (IF c.e.runmode = "replay" THEN files ELSE {<<>>}) :
      /\ ctor = [form |-> c.form, argc |-> c.argc]
      /\ runmode = c.e.runmode
      /\ ilogname = c.e.ilogname
      /\ ologname = c.e.ologname
      /\ olog = <<>>
      /\ disk = <<>>
      /\ scopes = <<>> /\ vpos = 0 /\ vpc = "off" /\ visible = "none"
      /\ ilog = file
      /\ ipos = 0
      /\ ifail = FALSE
      /\ heap = <<>>
      /\ storage = <<>>
      /\ stack = <<>>
      /\ made = NoMake
      /\ status = "running"
      /\ ncalls = 0
      /\ last = NoCall
      /\ session = <<>>
      /\ prev = <<>>
      /\ prevmode = "none"

Init == InitFrom(ForeignLogs)

\* The process ends (returns, aborts or crashes) and a new process builds an
\* engine; one that replays reads the file the old engine wrote.  Names of
\* the form x++ are not produced: gen(argc, argv) is given a plain name.
Reopen ==
  /\ ncalls > 0
  /\ \E c \in Constructions(ologname) :
       /\ c.form = "argv" /\ c.argc = 2 => ologname \in BaseNames
       /\ Construct(c, disk, session, runmode)

----------------------------------------------------------------------------
(* Public operations *)

\* the bookkeeping of one between() call with outcome o
Returned(T, lo, hi, id, o) ==
  /\ disk' = IF o.ok THEN olog_flush(o.olog, disk) ELSE disk
  /\ last' = [n |-> last.n + 1, T |-> T, lo |-> lo, hi |-> hi, id |-> id,
              val |-> o.val, ret |-> o.ok]
  /\ session' = IF o.ok THEN Append(session, [type |-> T, val |-> o.val])
                ELSE session

\* between() that starts generating when the input log is exhausted
BetweenCallFallback(T, lo, hi, id) ==
  /\ status = "running" /\ stack = <<>> /\ ncalls < MaxCalls
  /\ ncalls' = ncalls + 1
  /\ \E o \in between(T, lo, hi, id) :
       /\ olog' = o.olog
       /\ ipos' = o.s.pos
       /\ ifail' = o.s.fail
       /\ status' = IF o.ok THEN "running" ELSE "aborted"
       /\ runmode' = IF o.s.fail THEN "generate" ELSE runmode
       /\ Returned(T, lo, hi, id, o)
  /\ UNCHANGED <<ctor, ilogname, ologname, ilog, heap, storage, stack, made,
                 prev, prevmode>>
  /\ UNCHANGED visvars

\* a call of between<T>(lo, hi, id) by the program
BetweenCall(T, lo, hi, id) ==
  /\ status = "running" /\ stack = <<>> /\ ncalls < MaxCalls
  /\ ncalls' = ncalls + 1
  /\ \E o \in between(T, lo, hi, id) :
       /\ olog' = o.olog
       /\ ipos' = o.s.pos
       /\ ifail' = o.s.fail
       /\ status' = IF o.ok THEN "running" ELSE "aborted"
       /\ Returned(T, lo, hi, id, o)
  /\ UNCHANGED <<runmode, ctor, ilogname, ologname, ilog, heap, storage,
                 stack, made, prev, prevmode>>
  /\ UNCHANGED visvars

Between ==
  \E T \in CallTypes, id \in Ids : BetweenCall(T, RangeLo(T), RangeHi(T), id)

Next == Between \/ Reopen

Spec == Init /\ [][Next]_vars

----------------------------------------------------------------------------
(* Properties of between() and of the log *)

BetweenStep == last'.n = last.n + 1

NextTag == IF ~ifail /\ ipos < Len(ilog) THEN ilog[ipos + 1] ELSE 255

C2_RoundTrip ==
  (runmode = "replay" /\ prevmode = "generate") =>
    /\ \A i \in 1..Len(session) :
         (i <= Len(prev) /\ \A j \in 1..i : session[j].type = prev[j].type)
           => session[i].val = prev[i].val
    /\ (/\ last.n > 0 /\ last.n <= Len(prev) /\ last.n = Len(session) + 1
        /\ \A j \in 1..Len(session) : session[j].type = prev[j].type)
         => last.T # prev[last.n].type

C2_Witness ==
  /\ runmode = "replay" /\ prevmode = "generate"
  /\ Len(session) = 2 /\ Len(prev) = 2
  /\ session[1].type # session[2].type
  /\ \A j \in 1..2 : session[j] = prev[j]

\* C3: in replay mode a call whose type tag differs from the tag of the next
\* input record aborts: it returns nothing, writes nothing, and the engine
\* makes no further call.
C3_TagMismatchAborts ==
  /\ [][(runmode = "replay" /\ BetweenStep /\ NextTag # typetag(last'.T)) =>
          /\ status' = "aborted"
          /\ ~last'.ret
          /\ olog' = olog /\ session' = session]_vars
  /\ [][(status = "aborted" /\ ncalls' # 0) =>
          UNCHANGED <<last, olog, ipos, session, status>>]_vars

C3_Witness ==
  /\ status = "aborted" /\ runmode = "replay" /\ ~ifail /\ ipos = 1
  /\ ilog[1] # typetag(last.T)
  /\ Len(ParseLog(ilog)) = 2

\* C4: in replay mode every between() call appends one record with the value
\* read and the caller's id: after k calls the output log holds k records
\* whose tags and values are those of the first k input records.
C4_ReplayRelogged ==
  runmode = "replay" =>
    LET O == ParseLog(olog)
        I == ParseLog(ilog)
    IN /\ WholeRecords(olog)
       /\ Len(O) = Len(session)
       /\ \A j \in 1..Len(O) :
            /\ O[j].type = session[j].type /\ O[j].val = session[j].val
            /\ j <= Len(I) => (O[j].tag = I[j].tag /\ O[j].val = I[j].val)
       /\ (last.n > 0 /\ last.ret) => O[Len(O)].id = last.id

C4_Witness ==
  /\ runmode = "replay" /\ Len(session) = 2 /\ last.ret
  /\ Len(ParseLog(ilog)) >= 2
  /\ ParseLog(olog)[2].id # ParseLog(ilog)[2].id
  /\ ParseLog(olog)[1].type # ParseLog(olog)[2].type

\* C8: the mode is the one the constructor chose (output path only: generate;
\* input and output paths: replay; argv[k] present: replay from argv[k] into
\* argv[k]+"+", absent: generate into "fuzzlog") and no call changes it.
ModeOfConstructor ==
  /\ ctor.form = "olog" => runmode = "generate" /\ ilogname = ""
  /\ ctor.form = "ilog_olog" => runmode = "replay" /\ ilogname # ""
  /\ (ctor.form = "argv" /\ 1 < ctor.argc) =>
       runmode = "replay" /\ ologname = ilogname \o "+"
  /\ (ctor.form = "argv" /\ ~(1 < ctor.argc)) =>
       runmode = "generate" /\ ologname = "fuzzlog"

C8_ModeFixed ==
  /\ []ModeOfConstructor
  /\ [][ncalls' # 0 => runmode' = runmode]_vars

----------------------------------------------------------------------------
(* The types a program asks make() for, and their harness classes *)

\* top-level calls (make or between) of one engine in the make() model
MaxMakes == 1

\* the deepest pointer type a program asks for
MaxStars == 21

\* records of a foreign input log replayed by make()
MaxForeign == 6

\* bytes the allocator can deliver in one block
MaxAlloc == 8

\* out-of-bounds bytes a run may write before it faults
MaxOverrun == 1

\* runtime::spinlimit, as the test program defines it
spinlimit == 3

\* runtime::depthlimit
depthlimit == 20

RECURSIVE PtrType(_, _)
PtrType(base, k) == IF k = 0 THEN base ELSE PtrType(base, k - 1) \o "*"

PtrBase == "exception"
PtrTypes == {PtrType(PtrBase, k) : k \in 1..MaxStars}

\* std::remove_pointer<T>::type
Pointee(T) == CHOOSE U \in PtrTypes \cup {PtrBase} : U \o "*" = T

\* harness specialisations of the runtime, and the classes under test
BuiltinClasses == {"exception", "ostream"}
UserClasses == {"Base", "Derived", "Other", "A"}
StringClasses == {"string"}
ClassTypes == BuiltinClasses \cup StringClasses \cup UserClasses

\* which makenew overload the enable_if conditions select
Category(T) ==
  CASE T \in NumTypes -> "arithmetic"
    [] T \in ClassTypes -> "class"
    [] T = "char*" -> "char_ptr"
    [] T \in PtrTypes -> "pointer"

\* harness<T>::submakers: the direct subclasses a factory exists for
submakers(T) == IF T = "Base" THEN <<"Derived", "Other">> ELSE <<>>
subcount(T) == Len(submakers(T))

\* harness<T>::mroulette: per method, the types of its parameters
mroulette(T) ==
  CASE T = "A" -> << <<>>, <<"double">> >>
    [] T = "Derived" -> << <<>> >>
    [] OTHER -> <<>>
mcount(T) == Len(mroulette(T))

\* harness<T>::croulette: per constructor, the types of its parameters
croulette(T) ==
  CASE T = "Derived" -> << <<>>, <<"double">> >>
    [] OTHER -> << <<>> >>
ccount(T) == Len(croulette(T))

\* harness<T>::obj declared as a pointer to the base class T
ObjStaticBase(T) == T

\* the declared type of harness<T>::obj
ObjStatic(T) == IF T = "ostream" THEN "ostringstream" ELSE T

\* the class of the object the harness allocates
ObjDynamic(T) == IF T = "ostream" THEN "ostringstream" ELSE T

\* the value id generated harness code passes
HarnessId == Num("size_t", 7)

----------------------------------------------------------------------------
(* make() and makenew(), one step per logged decision or call *)

Frame(fn, T, id, allow, pc) ==
  [fn |-> fn, T |-> T, id |-> id, allow |-> allow, pc |-> pc, obj |-> 0,
   got |-> 0, i |-> 0, e |-> <<>>, k |-> 0, m |-> 0]

Obj(dyn, by, val, ptr) == [dyn |-> dyn, by |-> by, val |-> val, ptr |-> ptr]

top == stack[1]
callers == Tail(stack)
At(fn, pc) == stack # <<>> /\ status = "running" /\ top.fn = fn /\ top.pc = pc

Goto(f) == stack' = <<f>> \o callers
Call(f, callee) == stack' = <<callee, f>> \o callers

\* the innermost call returns h
ReturnTo(h) ==
  IF callers = <<>>
  THEN /\ stack' = <<>>
       /\ made' = [n |-> made.n + 1, T |-> top.T, allow |-> top.allow, h |-> h]
  ELSE /\ stack' = <<[callers[1] EXCEPT !.got = h]>> \o Tail(callers)
       /\ made' = made

Quiet == UNCHANGED <<olog, disk, ipos, ifail, last, session>>
Fixed ==
  /\ UNCHANGED <<runmode, ctor, ilogname, ologname, ilog, prev, prevmode,
                 ncalls>>
  /\ UNCHANGED visvars

\* the effect of one between() call inside make() on the logs
Logged(T, lo, hi, id, o) ==
  /\ olog' = o.olog
  /\ ipos' = o.s.pos
  /\ ifail' = o.s.fail
  /\ Returned(T, lo, hi, id, o)

\* storage[std::type_index(typeid(T))]: a missing entry is created
Touch(st, T) ==
  [t \in DOMAIN st \cup {T} |-> IF t \in DOMAIN st THEN st[t] ELSE <<>>]

\* gen::store(p): p becomes the newest element of the storage of p's type
store(st, T, h) == [Touch(st, T) EXCEPT ![T] = Append(@, h)]

\* gen::reuse that asks for reuse
reuse_always == TRUE

\* gen::reuse()
reuse == FALSE

MakeCall(T, id, allow) ==
  /\ status = "running" /\ stack = <<>> /\ ncalls < MaxMakes
  /\ ncalls' = ncalls + 1
  /\ stack' = <<Frame("make", T, id, allow, "enter")>>
  /\ Quiet
  /\ UNCHANGED <<runmode, ctor, ilogname, ologname, ilog, prev, prevmode,
                 heap, storage, made, status>>
  /\ UNCHANGED visvars

\* gen::make: the storage lookup and the reuse decision
MakeEnter ==
  /\ At("make", "enter")
  /\ Fixed
  /\ LET st == Touch(storage, top.T)
         oldies == st[top.T]
         hi == Num("size_t", Len(oldies) - 1)
     IN /\ storage' = st
        /\ heap' = heap
        /\ IF oldies # <<>> /\ reuse
           THEN \E o \in between("size_t", Num("size_t", 0), hi, top.id) :
                  /\ Logged("size_t", Num("size_t", 0), hi, top.id, o)
                  /\ IF ~o.ok
                     THEN status' = "aborted" /\ UNCHANGED <<stack, made>>
                     ELSE IF SmallNat(o.val) \in 0..(Len(oldies) - 1)
                     THEN status' = status
                          /\ ReturnTo(oldies[SmallNat(o.val) + 1])
                     ELSE status' = "crashed" /\ UNCHANGED <<stack, made>>
           ELSE /\ Quiet
                /\ Goto([top EXCEPT !.pc = "new"])
                /\ UNCHANGED <<made, status>>

\* makenew for arithmetic types
MakenewArithmetic ==
  /\ At("make", "new") /\ Category(top.T) = "arithmetic"
  /\ Fixed
  /\ \E o \in between(top.T, NumMin(top.T), NumMax(top.T), top.id) :
       /\ Logged(top.T, NumMin(top.T), NumMax(top.T), top.id, o)
       /\ IF o.ok
          THEN /\ heap' = Append(heap, Obj(top.T, "makenew", o.val, 0))
               /\ storage' = store(storage, top.T, Len(heap) + 1)
               /\ ReturnTo(Len(heap) + 1)
               /\ status' = status
          ELSE status' = "aborted" /\ UNCHANGED <<heap, storage, stack, made>>

\* the subclass test of makenew with harness<T>::subcount left out
MaySubNoCount(T, allow) == allow

\* harness<T>::subcount && allow_subclass
MaySub(T, allow) == subcount(T) # 0 /\ allow

\* makenew for classes: subclass or T itself
MakenewClass ==
  /\ At("make", "new") /\ Category(top.T) = "class"
  /\ Fixed
  /\ UNCHANGED <<heap, storage, made>>
  /\ IF MaySub(top.T, top.allow)
     THEN \E o \in between("double", D0, D1, top.id) :
            /\ Logged("double", D0, D1, top.id, o)
            /\ IF o.ok
               THEN /\ status' = status
                    /\ Goto([top EXCEPT !.pc = IF Lt("double", DHalf, o.val)
                                                THEN "subidx" ELSE "harness"])
               ELSE status' = "aborted" /\ UNCHANGED stack
     ELSE Quiet /\ Goto([top EXCEPT !.pc = "harness"]) /\ status' = status

\* subcount - 1 as a size_t
SubHi(T) ==
  IF subcount(T) = 0 THEN NumMax("size_t")
  ELSE Num("size_t", subcount(T) - 1)

\* the call of submakers[between(0, subcount - 1)]; an index outside the
\* array calls through whatever lies there
MakenewSubclass ==
  /\ At("make", "subidx")
  /\ Fixed
  /\ UNCHANGED <<heap, storage, made>>
  /\ \E o \in between("size_t", Num("size_t", 0), SubHi(top.T), top.id) :
       /\ Logged("size_t", Num("size_t", 0), SubHi(top.T), top.id, o)
       /\ IF ~o.ok THEN status' = "aborted" /\ UNCHANGED stack
          ELSE IF SmallNat(o.val) \in 0..(subcount(top.T) - 1)
          THEN /\ status' = status
               /\ Call([top EXCEPT !.pc = "subret"],
                       Frame("submaker", submakers(top.T)[SmallNat(o.val) + 1],
                             top.id, TRUE, "begin"))
          ELSE \/ status' = "crashed" /\ UNCHANGED stack
               \/ \E j \in 1..subcount(top.T) :
                    /\ status' = status
                    /\ Call([top EXCEPT !.pc = "subret"],
                            Frame("submaker", submakers(top.T)[j], top.id,
                                  TRUE, "begin"))

\* the subclass object is returned as it is
MakenewSubclassReturn ==
  /\ At("make", "subret")
  /\ Fixed /\ Quiet
  /\ UNCHANGED <<heap, storage, status>>
  /\ ReturnTo(top.got)

\* a submakers element: creates a random object of the subclass
Submaker ==
  /\ stack # <<>> /\ status = "running" /\ top.fn = "submaker"
  /\ Fixed /\ Quiet
  /\ UNCHANGED <<heap, storage, status>>
  /\ IF top.pc = "begin"
     THEN /\ Call([top EXCEPT !.pc = "ret"],
                  Frame("make", top.T, HarnessId, TRUE, "enter"))
          /\ made' = made
     ELSE ReturnTo(top.got)

\* harness<T> h(*this)
MakenewHarness ==
  /\ At("make", "harness")
  /\ Fixed /\ Quiet
  /\ UNCHANGED <<heap, storage, made, status>>
  /\ Call([top EXCEPT !.pc = "spincount"],
          Frame("harness", top.T, top.id, FALSE, "begin"))

\* the harness constructors of the runtime: obj(new ...)
HarnessBuiltin ==
  /\ At("harness", "begin") /\ top.T \in BuiltinClasses
  /\ Fixed /\ Quiet
  /\ UNCHANGED <<storage, status>>
  /\ heap' = Append(heap, Obj(ObjDynamic(top.T), top.T, <<>>, 0))
  /\ ReturnTo(Len(heap) + 1)

\* harness<std::basic_string>: *g.make<size_t>(3) is made first
HarnessString ==
  /\ At("harness", "begin") /\ top.T \in StringClasses
  /\ Fixed /\ Quiet
  /\ UNCHANGED <<heap, storage, made, status>>
  /\ Call([top EXCEPT !.pc = "snew"],
          Frame("make", "size_t", Num("size_t", 3), FALSE, "enter"))

\* obj(new std::basic_string(n, CharT())): n characters of value 0; the
\* constructor throws when n characters cannot be had
HarnessStringNew ==
  /\ At("harness", "snew")
  /\ Fixed /\ Quiet
  /\ UNCHANGED <<storage, made>>
  /\ LET n == heap[top.got].val
     IN IF SmallNat(n) \notin 0..MaxAlloc
        THEN status' = "bad_alloc" /\ UNCHANGED <<heap, stack>>
        ELSE /\ heap' = Append(heap, Obj(top.T, top.T, AllBytes(SmallNat(n), 0),
                                         0))
             /\ Goto([top EXCEPT !.pc = "sfill", !.obj = Len(heap) + 1,
                                 !.e = n, !.i = 0, !.k = 0])
             /\ status' = status

\* obj->size() - 1 in size_t
StringFillEnd(size) ==
  IF size = 0 THEN NumMax("size_t") ELSE Num("size_t", size - 1)

\* obj[i] = c with obj a pointer to the string: obj[0] is the string itself,
\* and assigning a character to it makes it that one character; obj[i] for
\* i > 0 is no object
StringAssign(val, c) == <<c>>

\* one turn of "for (i = 0; i < obj->size() - 1; ++i) obj[i] = between(1,
\* max, 4)", or the end of the loop
HarnessStringFill ==
  /\ At("harness", "sfill")
  /\ Fixed
  /\ UNCHANGED <<storage, made>>
  /\ LET lo == Num("char", 1)
         hi == NumMax("char")
         id == Num("size_t", 4)
         turn == [top EXCEPT !.i = top.i + 1, !.k = top.k + 1]
     IN IF Lt("size_t", Num("size_t", top.i),
              StringFillEnd(Len(heap[top.obj].val)))
        THEN \E o \in between("char", lo, hi, id) :
               /\ Logged("char", lo, hi, id, o)
               /\ IF ~o.ok
                  THEN status' = "aborted" /\ UNCHANGED <<heap, stack>>
                  ELSE IF top.i = 0
                  THEN /\ heap' = [heap EXCEPT ![top.obj].val =
                                                  StringAssign(@, o.val[1])]
                       /\ Goto(turn)
                       /\ status' = status
                  ELSE \/ status' = "crashed" /\ UNCHANGED <<heap, stack>>
                       \/ /\ top.i <= MaxOverrun
                          /\ Goto(turn)
                          /\ UNCHANGED <<heap, status>>
        ELSE /\ Quiet
             /\ Goto([top EXCEPT !.pc = "sback"])
             /\ UNCHANGED <<heap, status>>

\* obj->back() = CharT(0); back() of an empty string is undefined
HarnessStringBack ==
  /\ At("harness", "sback")
  /\ Fixed /\ Quiet
  /\ UNCHANGED <<storage, made>>
  /\ LET val == heap[top.obj].val
     IN IF val # <<>>
        THEN /\ heap' = [heap EXCEPT ![top.obj].val[Len(val)] = 0]
             /\ Goto([top EXCEPT !.pc = "sdone"])
             /\ status' = status
        ELSE \/ status' = "crashed" /\ UNCHANGED <<heap, stack>>
             \/ Goto([top EXCEPT !.pc = "sdone"]) /\ UNCHANGED <<heap, status>>

\* the harness constructor returns
HarnessStringDone ==
  /\ At("harness", "sdone")
  /\ Fixed /\ Quiet
  /\ UNCHANGED <<heap, storage, status>>
  /\ ReturnTo(top.obj)

\* a generated harness constructor: a randomly chosen constructor of T
HarnessCroulette ==
  /\ At("harness", "begin") /\ top.T \in UserClasses
  /\ Fixed
  /\ UNCHANGED <<heap, storage, made>>
  /\ LET hi == Num("unsigned", ccount(top.T) - 1)
     IN \E o \in between("unsigned", Num("unsigned", 0), hi, HarnessId) :
          /\ Logged("unsigned", Num("unsigned", 0), hi, HarnessId, o)
          /\ IF ~o.ok THEN status' = "aborted" /\ UNCHANGED stack
             ELSE IF SmallNat(o.val) \in 0..(ccount(top.T) - 1)
             THEN /\ status' = status
                  /\ Goto([top EXCEPT !.pc = "args", !.m = SmallNat(o.val)])
             ELSE \/ status' = "crashed" /\ UNCHANGED stack
                  \/ \E c \in 0..(ccount(top.T) - 1) :
                       /\ status' = status
                       /\ Goto([top EXCEPT !.pc = "args", !.m = c])

\* a constructor harness method: random arguments, then new T(arguments)
HarnessConstruct ==
  /\ At("harness", "args")
  /\ Fixed /\ Quiet
  /\ UNCHANGED <<storage, status>>
  /\ LET params == croulette(top.T)[top.m + 1]
     IN IF top.k < Len(params)
        THEN /\ Call([top EXCEPT !.k = top.k + 1],
                     Frame("make", params[top.k + 1], HarnessId, FALSE,
                           "enter"))
             /\ UNCHANGED <<heap, made>>
        ELSE /\ heap' = Append(heap, Obj(ObjDynamic(top.T), top.T, <<>>, 0))
             /\ ReturnTo(Len(heap) + 1)

\* makenew after the harness is built: how often to spin the roulette
MakenewSpinCount ==
  /\ At("make", "spincount")
  /\ Fixed
  /\ UNCHANGED <<heap, storage, made>>
  /\ LET lo == Num("unsigned", 0)
         hi == Num("unsigned", spinlimit)
         h == [top EXCEPT !.obj = top.got]
     IN IF mcount(top.T) # 0
        THEN \E o \in between("unsigned", lo, hi, top.id) :
               /\ Logged("unsigned", lo, hi, top.id, o)
               /\ IF o.ok
                  THEN /\ status' = status
                       /\ Goto([h EXCEPT !.pc = "loop", !.e = o.val, !.i = 0])
                  ELSE status' = "aborted" /\ UNCHANGED stack
        ELSE Quiet /\ status' = status /\ Goto([h EXCEPT !.pc = "store"])

\* one turn of "for (i = 0u, e = ...; i < e; ++i) (h.*h.mroulette[...])()"
MakenewSpin ==
  /\ At("make", "loop")
  /\ Fixed
  /\ UNCHANGED <<heap, storage, made>>
  /\ LET lo == Num("unsigned", 0)
         hi == Num("unsigned", mcount(top.T) - 1)
         turn == [top EXCEPT !.i = top.i + 1]
     IN IF Lt("unsigned", Num("unsigned", top.i), top.e)
        THEN \E o \in between("unsigned", lo, hi, top.id) :
               /\ Logged("unsigned", lo, hi, top.id, o)
               /\ IF ~o.ok THEN status' = "aborted" /\ UNCHANGED stack
                  ELSE IF SmallNat(o.val) \in 0..(mcount(top.T) - 1)
                  THEN /\ status' = status
                       /\ Call(turn, [Frame("method", top.T, top.id, FALSE,
                                            "args")
                                        EXCEPT !.m = SmallNat(o.val)])
                  ELSE \/ status' = "crashed" /\ UNCHANGED stack
                       \/ \E m \in 0..(mcount(top.T) - 1) :
                            /\ status' = status
                            /\ Call(turn, [Frame("method", top.T, top.id,
                                                 FALSE, "args")
                                             EXCEPT !.m = m])
        ELSE Quiet /\ status' = status /\ Goto([top EXCEPT !.pc = "store"])

\* a harness method: random arguments, then the method under test
HarnessMethod ==
  /\ At("method", "args")
  /\ Fixed /\ Quiet
  /\ UNCHANGED <<heap, storage, status>>
  /\ LET params == mroulette(top.T)[top.m + 1]
     IN IF top.k < Len(params)
        THEN /\ Call([top EXCEPT !.k = top.k + 1],
                     Frame("make", params[top.k + 1], HarnessId, FALSE,
                           "enter"))
             /\ made' = made
        ELSE ReturnTo(0)

\* return store(h.obj)
MakenewStore ==
  /\ At("make", "store")
  /\ Fixed /\ Quiet
  /\ UNCHANGED <<heap, status>>
  /\ storage' = store(storage, ObjStatic(top.T), top.obj)
  /\ ReturnTo(top.obj)

\* makenew for pointers: make the pointee
MakenewPointer ==
  /\ At("make", "new") /\ Category(top.T) = "pointer"
  /\ Fixed /\ Quiet
  /\ UNCHANGED <<heap, storage, made, status>>
  /\ Call([top EXCEPT !.pc = "ptrret"],
          Frame("make", Pointee(top.T), top.id, top.allow, "enter"))

\* store(new T(pointee))
MakenewPointerStore ==
  /\ At("make", "ptrret")
  /\ Fixed /\ Quiet
  /\ status' = status
  /\ heap' = Append(heap, Obj(top.T, "makenew", <<>>, top.got))
  /\ storage' = store(storage, top.T, Len(heap) + 1)
  /\ ReturnTo(Len(heap) + 1)

\* makenew for char*: r = new char*, then the length is made
MakenewCstr ==
  /\ At("make", "new") /\ Category(top.T) = "char_ptr"
  /\ Fixed /\ Quiet
  /\ UNCHANGED <<storage, made, status>>
  /\ heap' = Append(heap, Obj("char*", "makenew", <<>>, 0))
  /\ Call([top EXCEPT !.pc = "alloc", !.obj = Len(heap) + 1],
          Frame("make", "size_t", Num("size_t", 1000000 + SmallNat(top.id)),
                FALSE, "enter"))

\* the element count of new char[sz + 1], computed in size_t
CstrCount(sz) == Inc(sz)

\* *r = new char[sz + 1]; (*r)[sz] = '\0';  new throws when the block cannot
\* be had; a write past the block faults or goes unnoticed
MakenewCstrAlloc ==
  /\ At("make", "alloc")
  /\ Fixed /\ Quiet
  /\ UNCHANGED <<storage, made>>
  /\ LET sz == heap[top.got].val
         n == SmallNat(CstrCount(sz))
         at == SmallNat(sz)
         hb == Len(heap) + 1
         block(buf) == Append([heap EXCEPT ![top.obj].ptr = hb],
                              Obj("char[]", "makenew", buf, 0))
         fill(k) == [top EXCEPT !.pc = "fill", !.e = sz, !.i = 0, !.k = k]
     IN IF n \notin 0..MaxAlloc
        THEN status' = "bad_alloc" /\ UNCHANGED <<heap, stack>>
        ELSE \E buf \in Indeterminate(n) :
               IF at \in 0..(n - 1)
               THEN /\ heap' = block([buf EXCEPT ![at + 1] = 0])
                    /\ Goto(fill(0))
                    /\ status' = status
               ELSE \/ status' = "crashed" /\ UNCHANGED <<heap, stack>>
                    \/ /\ heap' = block(buf)
                       /\ Goto(fill(1))
                       /\ status' = status

\* one turn of "for (i = 0; i < sz; ++i) (*r)[i] = between(min, max)", or
\* the return of r when the loop is over
MakenewCstrFill ==
  /\ At("make", "fill")
  /\ Fixed
  /\ UNCHANGED <<storage>>
  /\ LET lo == NumMin("char")
         hi == NumMax("char")
         hb == heap[top.obj].ptr
         turn(k) == [top EXCEPT !.i = top.i + 1, !.k = k]
     IN IF Lt("size_t", Num("size_t", top.i), top.e)
        THEN /\ made' = made
             /\ \E o \in between("char", lo, hi, top.id) :
                  /\ Logged("char", lo, hi, top.id, o)
                  /\ IF ~o.ok
                     THEN status' = "aborted" /\ UNCHANGED <<heap, stack>>
                     ELSE IF top.i < Len(heap[hb].val)
                     THEN /\ heap' = [heap EXCEPT ![hb].val[top.i + 1] =
                                                     o.val[1]]
                          /\ Goto(turn(top.k))
                          /\ status' = status
                     ELSE \/ status' = "crashed" /\ UNCHANGED <<heap, stack>>
                          \/ /\ top.k < MaxOverrun
                             /\ Goto(turn(top.k + 1))
                             /\ UNCHANGED <<heap, status>>
        ELSE Quiet /\ UNCHANGED <<heap, status>> /\ ReturnTo(top.obj)

----------------------------------------------------------------------------
(* Programs that call make() *)

MakeTypes ==
  {"unsigned", "exception", "ostream", "string", "Base", "A", "char*",
   PtrType(PtrBase, 1), PtrType(PtrBase, MaxStars)}

MakeId == Num("size_t", 42)

\* or_subclass is passed for the types a subclass can stand in for
Make ==
  \E T \in MakeTypes, allow \in BOOLEAN :
    /\ allow => Category(T) = "class" \/ T = PtrType(PtrBase, 1)
    /\ MakeCall(T, MakeId, allow)

MakeStep ==
  \/ MakeEnter
  \/ MakenewArithmetic
  \/ MakenewClass
  \/ MakenewSubclass
  \/ MakenewSubclassReturn
  \/ Submaker
  \/ MakenewHarness
  \/ HarnessBuiltin
  \/ HarnessString
  \/ HarnessStringNew
  \/ HarnessStringFill
  \/ HarnessStringBack
  \/ HarnessStringDone
  \/ HarnessCroulette
  \/ HarnessConstruct
  \/ MakenewSpinCount
  \/ MakenewSpin
  \/ HarnessMethod
  \/ MakenewStore
  \/ MakenewPointer
  \/ MakenewPointerStore
  \/ MakenewCstr
  \/ MakenewCstrAlloc
  \/ MakenewCstrFill

\* a between() call made by the program itself, next to its make() calls
BetweenInMake ==
  /\ ncalls < MaxMakes
  /\ BetweenCall("unsigned", RangeLo("unsigned"), RangeHi("unsigned"), MakeId)

\* the input logs that were not written by the modelled program: records of
\* unsigned decisions, at most one of them outside the range the program
\* asks for
InRangeRec == [type |-> "unsigned", val |-> Num("unsigned", 0)]
OutOfRangeRec == [type |-> "unsigned", val |-> Num("unsigned", 4)]
MakeForeignSeqs ==
  UNION {{[i \in 1..k |-> IF i = j THEN OutOfRangeRec ELSE InRangeRec]
            : j \in 0..k} : k \in 0..MaxForeign}
\* the log of a run that made a Base and got a Derived, whole or cut short
SubclassSeq ==
  <<[type |-> "double", val |-> D3Quarters],
    [type |-> "size_t", val |-> Num("size_t", 0)],
    [type |-> "unsigned", val |-> Num("unsigned", 1)],
    [type |-> "double", val |-> DHalf],
    [type |-> "unsigned", val |-> Num("unsigned", 1)],
    [type |-> "unsigned", val |-> Num("unsigned", 0)]>>
SubclassSeqs == {SubSeq(SubclassSeq, 1, k) : k \in 1..Len(SubclassSeq)}

MakeForeignLogs == {Encode(r) : r \in MakeForeignSeqs \cup SubclassSeqs}

InitMake == InitFrom(MakeForeignLogs)

\* the code under test runs: the program between its calls of the engine,
\* a method or a constructor under test once its arguments are made
UnderTest ==
  IF stack = <<>> THEN TRUE
  ELSE IF top.pc # "args" THEN FALSE
  ELSE IF top.fn = "method" THEN top.k = Len(mroulette(top.T)[top.m + 1])
  ELSE top.fn = "harness" /\ top.k = Len(croulette(top.T)[top.m + 1])

\* the code under test crashes the process; the file stays as the operating
\* system holds it
Crash ==
  /\ status = "running" /\ ncalls > 0 /\ UnderTest
  /\ status' = "crashed"
  /\ Fixed /\ Quiet
  /\ UNCHANGED <<heap, storage, stack, made>>

NextMake == Make \/ MakeStep \/ BetweenInMake \/ Crash

SpecMake == InitMake /\ [][NextMake]_vars

----------------------------------------------------------------------------
(* Properties of make() *)

Pool(T) == IF T \in DOMAIN storage THEN {storage[T][i] : i \in 1..Len(storage[T])}
           ELSE {}

MakeFrames == {i \in 1..Len(stack) : stack[i].fn = "make"}

\* nested class and pointer syntheses in progress
NestDepth ==
  Cardinality({i \in MakeFrames :
                 Category(stack[i].T) \in {"class", "pointer"}})

\* C5: whatever make() calls were made, with or without allow_subclass,
\* every handle in the storage of a type T refers to an object whose dynamic
\* type is exactly T; an object made by a subclass factory of T is not in
\* T's storage.
C5_PoolSafety ==
  /\ \A T \in DOMAIN storage : \A h \in Pool(T) : heap[h].dyn = T
  /\ (made.n > 0 /\ made.h # 0 /\ heap[made.h].dyn # ObjDynamic(made.T))
       => made.h \notin Pool(made.T)

C5_Witness ==
  /\ made.n > 0 /\ made.T = "Base" /\ made.allow
  /\ heap[made.h].dyn = "Derived"
  /\ made.h \in Pool("Derived")
  /\ "Base" \in DOMAIN storage /\ Pool("Base") = {}
  /\ Pool("double") # {}

\* C6: one class synthesis invokes at most spinlimit methods on the new
\* object, the count being one logged decision in [0, spinlimit].
C6_SpinBound ==
  \A i \in MakeFrames :
    stack[i].pc = "loop" =>
      /\ Leq("unsigned", stack[i].e, Num("unsigned", spinlimit))
      /\ stack[i].i <= spinlimit

\* C7: no chain of nested class and pointer syntheses entered through make()
\* is longer than depthlimit.
C7_DepthBound == NestDepth <= depthlimit

\* C9: make<T>(id, allow_subclass = true) for a class T without subclass
\* factories draws no subclass decision and never calls a subclass factory;
\* the object it returns was built by T's own harness and is held in the
\* storage of the harness's obj type, which is T itself except for
\* std::ostream, whose harness holds a std::ostringstream.
C9_NoSubtypeBranch ==
  /\ \A i \in MakeFrames :
       (stack[i].allow /\ Category(stack[i].T) = "class"
          /\ subcount(stack[i].T) = 0)
         => stack[i].pc \notin {"subidx", "subret"}
  /\ (made.n > 0 /\ made.allow /\ Category(made.T) = "class"
        /\ subcount(made.T) = 0)
       => LET P == IF made.T = "ostream" THEN "ostringstream" ELSE made.T
          IN /\ heap[made.h].by = made.T
             /\ made.h \in Pool(P)
             /\ heap[made.h].dyn = P

C9_Witness ==
  /\ made.n > 0 /\ made.allow /\ made.T = "A"
  /\ made.h \in Pool("A")
  /\ runmode = "generate"
  /\ Len(ParseLog(olog)) > 2

\* C9 as stated: the object returned is stored in T's own storage.
C9_StoredInOwnPool ==
  (made.n > 0 /\ made.allow /\ Category(made.T) = "class"
     /\ subcount(made.T) = 0)
    => made.h \in Pool(made.T)

\* C10: for every length n the char* synthesis has a buffer of exactly n + 1
\* bytes whose byte at index n is '\0'.
C10_Terminated ==
  \A i \in MakeFrames :
    stack[i].pc = "fill" =>
      LET buf == heap[heap[stack[i].obj].ptr].val
      IN /\ Len(buf) > 0
         /\ Num("size_t", Len(buf) - 1) = stack[i].e
         /\ buf[Len(buf)] = 0

\* C8 with make(): a make() call has returned in an engine built from argv
C8_Witness ==
  /\ ctor.form = "argv" /\ ctor.argc = 2 /\ runmode = "replay"
  /\ ologname = "in.log+" /\ made.n = 1 /\ made.T = "A"

----------------------------------------------------------------------------
(* The visibility predicate of the harness generator (lib/Util.cpp) *)

\* scopes enclosing the class that is asked about
MaxScopes == 2

NoAccess == "none"
MemberAccess == {"public", "protected", "private"}

Scope(kind, named, tmpl, access, taccess) ==
  [kind |-> kind, named |-> named, tmpl |-> tmpl, access |-> access,
   taccess |-> taccess]

\* CXXRecordDecl: a class, anonymous or named, possibly the pattern of a class
\* template, in which case the access specifier is kept by the template
ClassScopes ==
  {Scope("class", n, FALSE, a, NoAccess)
     : n \in BOOLEAN, a \in MemberAccess \cup {NoAccess}}
  \cup {Scope("class", TRUE, TRUE, a, ta)
          : <<a, ta>> \in {x \in (MemberAccess \cup {NoAccess})
                                 \X (MemberAccess \cup {NoAccess})
                             : x[1] \in {NoAccess, x[2]}}}

\* NamespaceDecl, named or anonymous
NamespaceScopes ==
  {Scope("namespace", n, FALSE, NoAccess, NoAccess) : n \in BOOLEAN}

\* any other DeclContext: a function body, a linkage specification
OtherScopes == {Scope("other", TRUE, FALSE, NoAccess, NoAccess)}

\* the access specifier a declaration of this scope was written under
Declared(sc) == IF sc.tmpl THEN sc.taccess ELSE sc.access

\* declaration chains the language allows: members of a class, and only they,
\* have an access specifier; a namespace lies in a namespace or in the
\* translation unit
WellFormed(ch) ==
  /\ ch[1].kind = "class"
  /\ \A i \in 1..Len(ch) :
       LET inClass == i < Len(ch) /\ ch[i + 1].kind = "class"
           inNamespace == i = Len(ch) \/ ch[i + 1].kind = "namespace"
       IN /\ ch[i].kind = "class" => (Declared(ch[i]) # NoAccess <=> inClass)
          /\ ch[i].kind = "namespace" => inNamespace

Chains ==
  {ch \in UNION {[1..k -> ClassScopes \cup NamespaceScopes \cup OtherScopes]
                   : k \in 1..(MaxScopes + 1)} : WellFormed(ch)}

\* getAccess that looks at the record only
getAccessOfRecord(C) == C.access

\* getAccess(C): the described template's access if there is a template
getAccess(C) == IF C.tmpl THEN C.taccess ELSE C.access

\* no engine exists in the harness generator
InitVisible ==
  /\ runmode = "none" /\ ctor = [form |-> "none", argc |-> 0]
  /\ ilogname = "" /\ ologname = ""
  /\ olog = <<>> /\ disk = <<>> /\ ilog = <<>> /\ ipos = 0 /\ ifail = FALSE
  /\ heap = <<>> /\ storage = <<>> /\ stack = <<>> /\ made = NoMake
  /\ status = "none" /\ ncalls = 0 /\ last = NoCall
  /\ session = <<>> /\ prev = <<>> /\ prevmode = "none"
  /\ \/ scopes \in Chains /\ vpos = 1
     \/ scopes = <<>> /\ vpos = 0
  /\ vpc = "entry"
  /\ visible = "none"

VisReturn(b) == vpc' = "done" /\ visible' = b /\ vpos' = vpos

\* globally_visible(C) up to the lookup of the parent; vpos = 0 is a null C
VisEntry ==
  /\ vpc = "entry"
  /\ UNCHANGED genvars /\ scopes' = scopes
  /\ IF vpos = 0 \/ ~scopes[vpos].named
     THEN VisReturn("false")
     ELSE IF getAccess(scopes[vpos]) \in {"private", "protected"}
     THEN VisReturn("false")
     ELSE vpos' = vpos + 1 /\ vpc' = "loop" /\ visible' = visible

\* one turn of the while loop; a position past the chain is the
\* TranslationUnitDecl
VisLoop ==
  /\ vpc = "loop"
  /\ UNCHANGED genvars /\ scopes' = scopes
  /\ IF vpos > Len(scopes)
     THEN VisReturn("true")
     ELSE IF scopes[vpos].kind = "namespace"
     THEN IF ~scopes[vpos].named
          THEN VisReturn("false")
          ELSE vpos' = vpos + 1 /\ vpc' = "loop" /\ visible' = visible
     ELSE /\ vpos' = IF scopes[vpos].kind = "class" THEN vpos ELSE 0
          /\ vpc' = "entry"
          /\ visible' = visible

NextVisible == VisEntry \/ VisLoop

SpecVisible == InitVisible /\ [][NextVisible]_vars

\* C11: globally_visible(C) is true exactly when C and every class enclosing
\* it have a name and an access that is neither private nor protected, every
\* enclosing scope is a class or a namespace, and no enclosing namespace is
\* anonymous; a class with unrestricted access nested in a class that lies in
\* an anonymous namespace is not globally visible.
C11_GloballyVisible ==
  vpc = "done" =>
    (visible = "true" <=>
       /\ scopes # <<>>
       /\ \A i \in 1..Len(scopes) :
            /\ scopes[i].kind \in {"class", "namespace"}
            /\ scopes[i].named
            /\ Declared(scopes[i]) \notin {"private", "protected"})

C11_Witness ==
  /\ vpc = "done" /\ visible = "false" /\ Len(scopes) = 3
  /\ scopes[1].kind = "class" /\ scopes[1].named
  /\ Declared(scopes[1]) = "public"
  /\ scopes[2].kind = "class" /\ scopes[2].named
  /\ scopes[3].kind = "namespace" /\ ~scopes[3].named

\* C11 as stated: true exactly when C has a name, C's access is neither
\* private nor protected, and no enclosing scope is an anonymous namespace.
C11_VisibleExactly ==
  vpc = "done" =>
    (visible = "true" <=>
       /\ scopes # <<>>
       /\ scopes[1].named
       /\ Declared(scopes[1]) \notin {"private", "protected"}
       /\ \A i \in 2..Len(scopes) :
            ~(scopes[i].kind = "namespace" /\ ~scopes[i].named))

----------------------------------------------------------------------------
(* Durability of the output log *)

\* the file holds one whole record for every between() call that returned
FileHoldsSession ==
  LET P == ParseLog(disk)
  IN /\ SumLen(P) = Len(disk)
     /\ Len(P) = Len(session)
     /\ \A j \in 1..Len(session) :
          P[j].type = session[j].type /\ P[j].val = session[j].val

\* C12: when a between() call has returned, the output file holds every
\* record written so far, the one of that call included, and nothing is left
\* in the stream; this is so at every later point, also when the process has
\* crashed or aborted.
C12_LogDurable ==
  /\ FileHoldsSession
  /\ disk = olog
  /\ (last.n > 0 /\ last.ret) =>
       ParseLog(disk)[Len(session)].id = last.id

C12_Witness ==
  /\ status = "crashed" /\ stack # <<>> /\ top.fn = "method"
  /\ Len(session) > 3
  /\ FileHoldsSession
  /\ last.ret /\ ParseLog(disk)[Len(session)].id = last.id

----------------------------------------------------------------------------
(* Reuse of stored objects *)

----------------------------------------------------------------------------
(* The std::basic_string harness *)

\* C14: for every length n made, n = 0 included, the string harness ends with
\* a string of length n whose characters before the last are not 0 and whose
\* last character is 0, having drawn at most n characters.
C14_StringFilled ==
  \A f \in 1..Len(stack) :
    (stack[f].fn = "harness" /\ stack[f].pc = "sdone") =>
      LET val == heap[stack[f].obj].val
          n == SmallNat(stack[f].e)
      IN /\ Len(val) = n
         /\ stack[f].k <= n
         /\ \A j \in 1..Len(val) : (val[j] = 0 <=> j = Len(val))

----------------------------------------------------------------------------
(* Replay and the bounds of between() *)

\* the value bytes of the input record the most recent call read, as far as
\* the file holds them
StoredValue ==
  LET p == Len(olog) - RecLen(last.T)
      n == IF Len(ilog) - p - 1 < SizeOf(last.T) THEN Len(ilog) - p - 1
           ELSE SizeOf(last.T)
  IN [have |-> n, bytes |-> SubSeq(ilog, p + 2, p + 1 + n)]

====
